---- MODULE Spec2Model ----
(***************************************************************************)
(* Model of soft_eng_tools/github_user_repo_stats.py: one run of           *)
(* main_script, from the command line to the printed summary.  The Github  *)
(* client is the environment: it accepts or rejects the token, finds or    *)
(* does not find the organization and the repository, and yields the pull  *)
(* requests and their reviews one at a time as the loops iterate.          *)
(***************************************************************************)
EXTENDS Integers, Sequences, FiniteSets

\* ------------------------------------------------------------------ bounds
MaxPRs == 2
MaxReviews == 2

\* ------------------------------------------------------------ input values
DigitChars == <<"0", "1", "2", "3", "4", "5", "6", "7", "8", "9">>

Digits == {DigitChars[i] : i \in 1..10}

\* Values of -r: well formed, no delimiter, two delimiters.
Repositories ==
    { <<"o", "/", "r">>, <<"o", "r">>, <<"o", "/", "r", "/", "x">> }

\* Values of -sd: 202306, 202312 and the five-character 20231.
StartDates ==
    { <<"2", "0", "2", "3", "0", "6">>,
      <<"2", "0", "2", "3", "1", "2">>,
      <<"2", "0", "2", "3", "1">> }

\* Values of -u: "" stands for the flag left out (None).
UserArgs == {"", "bob"}

Login == "alice"

Logins == {"alice", "bob"}

ReviewStates == {"APPROVED", "COMMENTED"}

\* An instant in UTC, as far as its (year, month) in a timezone west of UTC
\* is concerned: early is TRUE for the first hours of the first day of the
\* month, which are still the last day of the previous month in Denver.
NoStamp == [year |-> 0, month |-> 0, early |-> FALSE]

Stamps ==
    { [year |-> 2022, month |-> 12, early |-> FALSE],
      [year |-> 2023, month |-> 6,  early |-> TRUE],
      [year |-> 2023, month |-> 6,  early |-> FALSE],
      [year |-> 2024, month |-> 1,  early |-> FALSE] }

Reviews == [login : Logins, state : ReviewStates, submitted_at : Stamps]

NoReview == [login |-> "", state |-> "", submitted_at |-> NoStamp]

\* Lines added and removed by a pull request.
Sizes ==
    { [additions |-> 0, deletions |-> 1],
      [additions |-> 1, deletions |-> 0],
      [additions |-> 2, deletions |-> 1] }

\* The pull requests the iterator can yield as number n, merged or not.
PullRequests(n) ==
    { [number |-> n, merged |-> TRUE, merged_at |-> t,
       additions |-> z.additions, deletions |-> z.deletions] :
         t \in Stamps, z \in Sizes }
    \cup
    { [number |-> n, merged |-> FALSE, merged_at |-> NoStamp,
       additions |-> z.additions, deletions |-> z.deletions] : z \in Sizes }

NoPR == [number |-> 0, merged |-> FALSE, merged_at |-> NoStamp,
         additions |-> 0, deletions |-> 0]

\* ------------------------------------------------------------ pure helpers
\* "/" in s
HasSlash(s) == \E i \in 1..Len(s) : s[i] = "/"

\* s.rsplit("/"): no maxsplit, so s is cut at every delimiter.
RECURSIVE SplitFrom(_, _, _)
SplitFrom(s, i, cur) ==
    IF i > Len(s) THEN <<cur>>
    ELSE IF s[i] = "/" THEN <<cur>> \o SplitFrom(s, i + 1, <<>>)
    ELSE SplitFrom(s, i + 1, Append(cur, s[i]))

RSplit(s) == SplitFrom(s, 1, <<>>)

\* s[lo:hi] and s[lo:] of Python, lo and hi counted from 0.
Slice(s, lo, hi) == SubSeq(s, lo + 1, IF hi < Len(s) THEN hi ELSE Len(s))

SliceFrom(s, lo) == SubSeq(s, lo + 1, Len(s))

\* int(s): ValueError unless s is a non-empty string of digits.
IsInt(s) == Len(s) > 0 /\ \A i \in 1..Len(s) : s[i] \in Digits

DigitVal(c) == (CHOOSE i \in 1..10 : DigitChars[i] = c) - 1

RECURSIVE IntOf(_)
IntOf(s) ==
    IF Len(s) = 0 THEN 0
    ELSE 10 * IntOf(SubSeq(s, 1, Len(s) - 1)) + DigitVal(s[Len(s)])

StartYearText(d) == Slice(d, 0, 4)

StartMonthText(d) == SliceFrom(d, 5)

\* t.astimezone(denver_time), reduced to the (year, month) it is read for.
Denver(t) ==
    IF t.early
    THEN IF t.month = 1
         THEN [year |-> t.year - 1, month |-> 12]
         ELSE [year |-> t.year, month |-> t.month - 1]
    ELSE [year |-> t.year, month |-> t.month]

\* -------------------------------------------------------------------- state
VARIABLES
    pc,               \* position of main_script
    repository,       \* args.repository
    start_date,       \* args.start_date
    user_arg,         \* args.username
    repo_args,        \* repo_args
    start_year,       \* start_year
    start_month,      \* start_month
    prompted,         \* getpass has asked for the token
    requests,         \* requests sent to Github, in order
    client_error,     \* the exception the Github client raised, or "None"
    raised,           \* the exception that ended main_script, or "None"
    username,         \* username
    npr,              \* pull requests the outer loop has taken from pulls
    pr,               \* pr
    nrev,             \* reviews the inner loop has taken
    review,           \* review
    num_reviewed_prs, \* num_reviewed_prs
    num_additions,    \* num_additions
    num_deletions,    \* num_deletions
    max_pr_additions, \* max_pr_additions
    max_pr_num,       \* max_pr_num
    stop_loop,        \* stop_loop
    printed,          \* the summary has been printed
    counted           \* history: the pull request of every review counted

args == <<repository, start_date, user_arg>>

cutoff == <<start_year, start_month>>

counters ==
    <<num_reviewed_prs, num_additions, num_deletions, max_pr_additions,
      max_pr_num>>

outer == <<npr, pr>>

inner == <<nrev, review>>

vars ==
    <<pc, args, repo_args, cutoff, prompted, requests, client_error, raised,
      username, outer, inner, counters, stop_loop, printed, counted>>

Init ==
    /\ pc = "start"
    /\ repository \in Repositories
    /\ start_date \in StartDates
    /\ user_arg \in UserArgs
    /\ repo_args = <<>>
    /\ start_year = 0
    /\ start_month = 0
    /\ prompted = FALSE
    /\ requests = <<>>
    /\ client_error = "None"
    /\ raised = "None"
    /\ username = ""
    /\ npr = 0
    /\ pr = NoPR
    /\ nrev = 0
    /\ review = NoReview
    /\ num_reviewed_prs = 0
    /\ num_additions = 0
    /\ num_deletions = 0
    /\ max_pr_additions = 0
    /\ max_pr_num = 0
    /\ stop_loop = FALSE
    /\ printed = FALSE
    /\ counted = <<>>

\* The exception main_script raises when the client rejects the token.
AuthenticationError == "ValueError"

\* --------------------------------------------------- conditions of the scan
\* Variant: the state of the review is not looked at.
Matches_AnyState(rv) == rv.login = username

\* review.user.login == username and review.state != "COMMENTED"
Matches(rv) == rv.login = username /\ rv.state # "COMMENTED"

\* Variant: the start month itself is left out.
OnOrAfterStart_Strict(d) ==
    \/ d.year > start_year
    \/ (d.year = start_year /\ d.month > start_month)

\* The submission date is in or after the start month.
OnOrAfterStart(d) ==
    \/ d.year > start_year
    \/ (d.year = start_year /\ d.month >= start_month)

\* Variant: the year of the merge is not looked at.
MergedBeforeStart_MonthOnly(d) == d.month < start_month

\* The merge date is before the start month.
MergedBeforeStart(d) ==
    \/ d.year < start_year
    \/ (d.year = start_year /\ d.month < start_month)

\* The entry of counted for a review of p.
Counted(p) ==
    [number |-> p.number, additions |-> p.additions, deletions |-> p.deletions]

\* Variant: the increment sits under the test of pr.additions.
NewCount_UnderMaxTest(p) ==
    IF p.additions > max_pr_additions
    THEN num_reviewed_prs + 1 ELSE num_reviewed_prs

\* num_reviewed_prs += 1
NewCount(p) == num_reviewed_prs + 1

\* Variant: the removed lines are added to the added ones.
NewAdditions_Deletions(p) == num_additions + p.deletions

\* num_additions += pr.additions
NewAdditions(p) == num_additions + p.additions

\* num_deletions += pr.deletions
NewDeletions(p) == num_deletions + p.deletions

\* Variant: the maximum is overwritten without the comparison.
NewMaxAdditions_Last(p) == p.additions

\* if pr.additions > max_pr_additions: max_pr_additions = pr.additions
NewMaxAdditions(p) ==
    IF p.additions > max_pr_additions THEN p.additions ELSE max_pr_additions

\* ... and max_pr_num = pr.number
NewMaxNum(p) ==
    IF p.additions > max_pr_additions THEN p.number ELSE max_pr_num

\* ------------------------------------------------------------------ actions
\* parse_command_line: the assertion on the repository argument.
ParseCommandLine ==
    /\ pc = "start"
    /\ IF HasSlash(repository)
       THEN pc' = "parsed" /\ raised' = raised
       ELSE pc' = "failed" /\ raised' = "AssertionError"
    /\ UNCHANGED <<args, repo_args, cutoff, prompted, requests, client_error,
                   username, outer, inner, counters, stop_loop, printed,
                   counted>>

\* repo_args, start_year and start_month are taken from the arguments.
ExtractArgs ==
    /\ pc = "parsed"
    /\ repo_args' = RSplit(repository)
    /\ IF IsInt(StartYearText(start_date)) /\ IsInt(StartMonthText(start_date))
       THEN /\ start_year' = IntOf(StartYearText(start_date))
            /\ start_month' = IntOf(StartMonthText(start_date))
            /\ pc' = "extracted"
            /\ raised' = raised
       ELSE /\ start_year' =
                  IF IsInt(StartYearText(start_date))
                  THEN IntOf(StartYearText(start_date)) ELSE start_year
            /\ start_month' = start_month
            /\ pc' = "failed"
            /\ raised' = "ValueError"
    /\ UNCHANGED <<args, prompted, requests, client_error, username, outer,
                   inner, counters, stop_loop, printed, counted>>

\* The token is asked for and ghub.get_user().login is requested; the client
\* accepts the token or raises BadCredentialsException, which main_script
\* replaces by a ValueError.  args.username overrides the login.
Authenticate ==
    /\ pc = "extracted"
    /\ prompted' = TRUE
    /\ requests' = Append(requests, <<"get_user">>)
    /\ \E ok \in BOOLEAN :
          IF ok
          THEN /\ username' = IF user_arg # "" THEN user_arg ELSE Login
               /\ pc' = "authenticated"
               /\ UNCHANGED <<client_error, raised>>
          ELSE /\ client_error' = "BadCredentialsException"
               /\ raised' = AuthenticationError
               /\ pc' = "failed"
               /\ username' = username
    /\ UNCHANGED <<args, repo_args, cutoff, outer, inner, counters, stop_loop,
                   printed, counted>>

\* ghub.get_organization(repo_args[0])
GetOrganization ==
    /\ pc = "authenticated"
    /\ requests' = Append(requests, <<"get_organization", repo_args[1]>>)
    /\ \E found \in BOOLEAN :
          IF found
          THEN pc' = "organization" /\ UNCHANGED <<client_error, raised>>
          ELSE /\ client_error' = "UnknownObjectException"
               /\ raised' = "UnknownObjectException"
               /\ pc' = "failed"
    /\ UNCHANGED <<args, repo_args, cutoff, prompted, username, outer, inner,
                   counters, stop_loop, printed, counted>>

\* org.get_repo(repo_args[1])
GetRepo ==
    /\ pc = "organization"
    /\ requests' = Append(requests, <<"get_repo", repo_args[2]>>)
    /\ \E found \in BOOLEAN :
          IF found
          THEN pc' = "repository" /\ UNCHANGED <<client_error, raised>>
          ELSE /\ client_error' = "UnknownObjectException"
               /\ raised' = "UnknownObjectException"
               /\ pc' = "failed"
    /\ UNCHANGED <<args, repo_args, cutoff, prompted, username, outer, inner,
                   counters, stop_loop, printed, counted>>

\* repo.get_pulls(state='all'), then the counters and stop_loop are set.
GetPulls ==
    /\ pc = "repository"
    /\ requests' = Append(requests, <<"get_pulls">>)
    /\ num_reviewed_prs' = 0
    /\ num_additions' = 0
    /\ num_deletions' = 0
    /\ max_pr_additions' = 0
    /\ max_pr_num' = 0
    /\ stop_loop' = FALSE
    /\ pc' = "loop"
    /\ UNCHANGED <<args, repo_args, cutoff, prompted, client_error, raised,
                   username, outer, inner, printed, counted>>

\* The for statement takes the next pull request, newest first; the loop is
\* left when stop_loop is set or the pull request was merged before the start
\* month, otherwise the reviews of the pull request are requested.
NextPR ==
    /\ pc = "loop"
    /\ npr < MaxPRs
    /\ \E p \in PullRequests(MaxPRs - npr) :
          /\ pr' = p
          /\ npr' = npr + 1
          /\ IF stop_loop \/ (p.merged /\ MergedBeforeStart(Denver(p.merged_at)))
             THEN /\ pc' = "finished"
                  /\ UNCHANGED <<requests, nrev>>
             ELSE /\ pc' = "reviews"
                  /\ requests' = Append(requests, <<"get_reviews", p.number>>)
                  /\ nrev' = 0
    /\ UNCHANGED <<args, repo_args, cutoff, prompted, client_error, raised,
                   username, review, counters, stop_loop, printed, counted>>

\* pulls is exhausted.
PullsExhausted ==
    /\ pc = "loop"
    /\ pc' = "finished"
    /\ UNCHANGED <<args, repo_args, cutoff, prompted, requests, client_error,
                   raised, username, outer, inner, counters, stop_loop,
                   printed, counted>>

\* One iteration of the loop over the reviews of pr.
ExamineReview ==
    /\ pc = "reviews"
    /\ nrev < MaxReviews
    /\ \E rv \in Reviews :
          /\ review' = rv
          /\ nrev' = nrev + 1
          /\ IF Matches(rv)
             THEN IF OnOrAfterStart(Denver(rv.submitted_at))
                  THEN /\ num_reviewed_prs' = NewCount(pr)
                       /\ num_additions' = NewAdditions(pr)
                       /\ num_deletions' = NewDeletions(pr)
                       /\ max_pr_additions' = NewMaxAdditions(pr)
                       /\ max_pr_num' = NewMaxNum(pr)
                       /\ counted' = Append(counted, Counted(pr))
                       /\ UNCHANGED <<pc, stop_loop>>
                  ELSE /\ stop_loop' = TRUE
                       /\ pc' = "loop"
                       /\ UNCHANGED <<counters, counted>>
             ELSE UNCHANGED <<pc, stop_loop, counters, counted>>
    /\ UNCHANGED <<args, repo_args, cutoff, prompted, requests, client_error,
                   raised, username, outer, printed>>

\* The reviews of pr are exhausted (at once when pr has none).
ReviewsExhausted ==
    /\ pc = "reviews"
    /\ pc' = "loop"
    /\ UNCHANGED <<args, repo_args, cutoff, prompted, requests, client_error,
                   raised, username, outer, inner, counters, stop_loop,
                   printed, counted>>

\* The connection is closed and the summary printed.
PrintSummary ==
    /\ pc = "finished"
    /\ printed' = TRUE
    /\ pc' = "done"
    /\ UNCHANGED <<args, repo_args, cutoff, prompted, requests, client_error,
                   raised, username, outer, inner, counters, stop_loop,
                   counted>>

Next ==
    \/ ParseCommandLine
    \/ ExtractArgs
    \/ Authenticate
    \/ GetOrganization
    \/ GetRepo
    \/ GetPulls
    \/ NextPR
    \/ PullsExhausted
    \/ ExamineReview
    \/ ReviewsExhausted
    \/ PrintSummary

Spec == Init /\ [][Next]_vars

\* The runs whose repository argument is <organization>/<repository>.
ScanInit == Init /\ Len(RSplit(repository)) = 2

SpecScan == ScanInit /\ [][Next]_vars

\* ------------------------------------------------ vocabulary of the claims
\* A (year, month) as one number; months stay below 100.
YM(d) == 100 * d.year + d.month

CutoffYM == 100 * start_year + start_month

\* The scan has its cutoff: the arguments were accepted and pulls requested.
Scanning == pc \in {"loop", "reviews", "finished", "done"}

\* d is YYYYMM: six digits, the last two a month 01..12.
TypedMonth(d) == 10 * DigitVal(d[5]) + DigitVal(d[6])

IsYYYYMM(d) ==
    /\ Len(d) = 6
    /\ \A i \in 1..6 : d[i] \in Digits
    /\ TypedMonth(d) \in 1..12

NumSeparators(s) == Cardinality({i \in 1..Len(s) : s[i] = "/"})

\* The review in hand is by the target user and more than a comment.
ByReviewer(rv) == rv.login = username /\ rv.state # "COMMENTED"

RECURSIVE SeqSum(_, _)
SeqSum(q, f) ==
    IF Len(q) = 0 THEN 0 ELSE q[1][f] + SeqSum(Tail(q), f)

RECURSIVE SetSum(_, _)
SetSum(S, f) ==
    IF S = {} THEN 0
    ELSE LET x == CHOOSE y \in S : TRUE IN x[f] + SetSum(S \ {x}, f)

\* The pull requests with at least one counted review.
Contributors == {counted[i] : i \in 1..Len(counted)}

SetMax(S) == CHOOSE x \in S : \A y \in S : y <= x

\* ------------------------------------------------------------------ claims
\* C1: for every start date in YYYYMM form the cutoff of the scan is the
\* year of the first four digits and the month of the last two, so the
\* month is in 1..12 and is the month typed.
C1_CutoffIsTypedMonth ==
    (Scanning /\ IsYYYYMM(start_date)) =>
        /\ start_year = IntOf(SubSeq(start_date, 1, 4))
        /\ start_month = TypedMonth(start_date)
        /\ start_month \in 1..12

\* C2: the token is asked for and requests are sent only when the
\* repository argument holds exactly one "/"; with any other argument the
\* run has ended with the input error before the prompt and any request.
C2_NetworkOnlyWithOneSeparator ==
    /\ (prompted \/ requests # <<>>) => NumSeparators(repository) = 1
    /\ (pc # "start" /\ NumSeparators(repository) # 1) =>
           (pc = "failed" /\ raised = "AssertionError")

\* C3: when the client rejects the token the run ends with an error of a
\* kind of its own: not the client's error, not the kind of any other
\* failure of the program; only the credential check has been requested
\* and no summary is printed.
C3_AuthenticationErrorDistinct ==
    /\ client_error = "BadCredentialsException" =>
           /\ pc = "failed"
           /\ raised = AuthenticationError
           /\ raised \notin {"None", "BadCredentialsException",
                             "AssertionError", "UnknownObjectException"}
           /\ requests = << <<"get_user">> >>
           /\ ~printed
    /\ (pc = "failed" /\ client_error # "BadCredentialsException") =>
           raised # AuthenticationError

\* C4: a review the scan examines changes the counters if and only if it
\* is by the target user, is not COMMENTED and was submitted, in Denver
\* time, in or after the cutoff month.
C4_CountedIffQualifies ==
    [][ (nrev' = nrev + 1) =>
          ( (counters' # counters)
              <=> ( /\ review'.login = username
                    /\ review'.state # "COMMENTED"
                    /\ YM(Denver(review'.submitted_at)) >= CutoffYM ) ) ]_vars

\* A review submitted in the cutoff month itself has just been counted.
C4_Witness ==
    /\ pc = "reviews"
    /\ nrev >= 1
    /\ ByReviewer(review)
    /\ YM(Denver(review.submitted_at)) = CutoffYM
    /\ Len(counted) >= 1
    /\ counted[Len(counted)].number = pr.number

\* C5: max_pr_additions is the largest additions value among the pull
\* requests that have contributed to the count so far, 0 if there is none.
C5_MaxOfContributors ==
    max_pr_additions = SetMax({c.additions : c \in Contributors} \cup {0})

\* Two pull requests contributed, the first with more additions.
C5_Witness ==
    /\ pc = "done"
    /\ Len(counted) = 2
    /\ counted[1].number # counted[2].number
    /\ counted[1].additions > counted[2].additions
    /\ counted[2].additions > 0

\* C6: the totals are the sums of additions and of deletions taken once
\* over each pull request that had at least one counted review.
C6_TotalsOncePerPR ==
    /\ num_additions = SetSum(Contributors, "additions")
    /\ num_deletions = SetSum(Contributors, "deletions")

\* C7: while num_reviewed_prs is 0 the totals and the maximum are 0, and a
\* run that counts nothing ends with the summary printed and no error.
C7_ZeroCountZeroTotals ==
    /\ num_reviewed_prs = 0 =>
           (num_additions = 0 /\ num_deletions = 0 /\ max_pr_additions = 0)
    /\ Scanning => raised = "None"
    /\ (pc = "done" /\ num_reviewed_prs = 0) => printed

\* A run that examined reviews and counted none has printed its summary.
C7_Witness ==
    /\ pc = "done"
    /\ printed
    /\ npr >= 1
    /\ nrev >= 1
    /\ num_reviewed_prs = 0
    /\ counted = <<>>

\* C8: a merged pull request whose merge month, in Denver time, is before
\* the cutoff ends the outer loop: its reviews are not requested, nothing
\* is taken from pulls afterwards and the counters keep their values; any
\* other pull request the loop takes has its reviews requested.
C8_MergedBeforeCutoffStops ==
    [][ /\ (npr' = npr + 1 /\ ~stop_loop) =>
              IF pr'.merged /\ YM(Denver(pr'.merged_at)) < CutoffYM
              THEN /\ pc' = "finished"
                   /\ requests' = requests
                   /\ counters' = counters
              ELSE /\ pc' = "reviews"
                   /\ requests' =
                          Append(requests, <<"get_reviews", pr'.number>>)
        /\ pc = "finished" =>
              /\ pc' = "done"
              /\ requests' = requests
              /\ counters' = counters
              /\ UNCHANGED <<outer, inner>> ]_vars

\* The loop was left at a pull request merged before the cutoff, after a
\* review of an earlier pull request had been counted.
C8_Witness ==
    /\ pc = "finished"
    /\ ~stop_loop
    /\ pr.merged
    /\ YM(Denver(pr.merged_at)) < CutoffYM
    /\ num_reviewed_prs >= 1
    /\ num_additions >= 1
    /\ nrev >= 1

\* C9: a review by the target user, not COMMENTED, submitted before the
\* cutoff sets stop_loop and leaves the review loop; from then on no review
\* is examined, no reviews are requested and the counters do not change.
\* No other review does so.
C9_OldReviewAbortsScan ==
    [][ /\ (nrev' = nrev + 1) =>
              IF /\ review'.login = username
                 /\ review'.state # "COMMENTED"
                 /\ YM(Denver(review'.submitted_at)) < CutoffYM
              THEN /\ stop_loop'
                   /\ pc' = "loop"
                   /\ counters' = counters
              ELSE /\ ~stop_loop'
                   /\ pc' = "reviews"
        /\ stop_loop =>
              /\ stop_loop'
              /\ pc' \in {"finished", "done"}
              /\ counters' = counters
              /\ requests' = requests
              /\ UNCHANGED inner ]_vars

\* The scan was aborted by a later review of a pull request whose first
\* review was counted, before the outer loop had taken every pull request.
C9_Witness ==
    /\ pc = "loop"
    /\ stop_loop
    /\ ByReviewer(review)
    /\ YM(Denver(review.submitted_at)) < CutoffYM
    /\ num_reviewed_prs >= 1
    /\ counted[Len(counted)].number = pr.number
    /\ nrev >= 2
    /\ npr < MaxPRs

====
